---- MODULE Spec2Model ----
(***************************************************************************)
(* A model of scripts/edit_json.py: the SongEditor transforms (measure and *)
(* beat extraction, pitch and hand filters) over a store of Python         *)
(* objects, and the command line driver main().                            *)
(*                                                                         *)
(* Python values.  A dict is a record whose DOMAIN is its key set, so      *)
(* `"hand" in note` is "hand" \in DOMAIN note.  An Optional argument is    *)
(* None (the empty tuple) or Some(v) (a one-element tuple).  A note dict   *)
(* and its nested timing dict are two objects of the store `heap`; a note  *)
(* holds the address of its timing dict.  Beats are exact numbers on an    *)
(* integer grid (the rounding of float subtraction is not modelled).       *)
(* Strings that the source writes in Japanese are spelled in ASCII.        *)
(***************************************************************************)
EXTENDS Integers, Sequences, FiniteSets, TLC

VARIABLES
    heap,       \* the live Python objects: address -> note dict or timing dict
    song_data,  \* the song dict given to SongEditor (main: the loaded JSON)
    editor,     \* the SongEditor instance: [title, bpm, notes]
    result,     \* the dict returned by the last transform, or None
    call,       \* history: the last transform call, its arguments and its input
    orig,       \* history: the value of song_data when it was created
    neditors,   \* history: how many SongEditor instances have been constructed
    args,       \* main: the parsed command line (argparse namespace)
    infile,     \* main: the input path's content
    outfile,    \* main: the output path's content, None until written
    pc,         \* main: the position in main()
    exit_code,  \* main: the process exit code, None while running
    log         \* main: history of what the invocation did

libvars  == <<heap, song_data, editor, result, call, orig, neditors>>
mainvars == <<args, infile, outfile, pc, exit_code, log>>
vars     == <<heap, song_data, editor, result, call, orig, neditors,
              args, infile, outfile, pc, exit_code, log>>

None == <<>>
Some(v) == <<v>>

----------------------------------------------------------------------------
(* Bounds of the model and the value domains the inputs are drawn from.    *)

MaxNotes == 2            \* notes of a song (Spec)
MaxSeqNotes == 2         \* notes of a song (SpecSeq)
MaxEditors == 2          \* SongEditor instances chained result to input (SpecSeq)
MaxMainNotes == 1        \* notes of the input file's song (SpecMain)
MaxMeasure == 4          \* measure numbers (SpecMeasures)
MaxBeatsPerMeasure == 4  \* --beats / --pickup-beats values (SpecMeasures)

Pitches == {0, 1}
Thresholds == {0, 1, 2}
Beats == {0, 1, 2}
BeatArgs == {0, 1, 2, 3}
SeqBeats == {0, 1}
Hands == {"left", "right"}

\* a note dict by value: timing nested, velocity and hand optional
MkNote(p, b, d, v, hd) ==
    LET core == [pitch |-> p, timing |-> [beat |-> b, duration |-> d]]
    IN  CASE v = None /\ hd = None -> core
          [] v = None /\ hd # None -> [pitch |-> p, timing |-> core.timing, hand |-> hd[1]]
          [] v # None /\ hd = None -> [pitch |-> p, timing |-> core.timing, velocity |-> v[1]]
          [] OTHER -> [pitch |-> p, timing |-> core.timing, velocity |-> v[1], hand |-> hd[1]]

\* duration and velocity, the fields every transform carries over untouched
Payloads == {<<1, None>>, <<2, Some(100)>>}

NoteValues ==
    {MkNote(p, b, pl[1], pl[2], hd) :
        p \in Pitches, b \in Beats, pl \in Payloads,
        hd \in {None} \cup {Some(x) : x \in Hands}}

SeqNoteValues ==
    {MkNote(p, b, 2, None, hd) :
        p \in Pitches, b \in SeqBeats, hd \in {None} \cup {Some(x) : x \in Hands}}

IsSorted(ns) == \A i \in 1..(Len(ns) - 1) : ns[i].timing.beat <= ns[i + 1].timing.beat

\* the note lists of at most n notes over S, in ascending beat order
SortedNoteLists(S, n) ==
    {ns \in UNION {[1..k -> S] : k \in 0..n} : IsSorted(ns)}

\* the song level keys: both given, or both absent (SongEditor's defaults)
Headers == {[title |-> "T", bpm |-> 90, notes |-> <<>>], [notes |-> <<>>]}

----------------------------------------------------------------------------
(* The object store.                                                       *)

\* the store holding the notes ns (by value): note i at 2(i-1), its timing next
\* (a note dict without a "timing" key has no timing object)
HasTiming(n) == "timing" \in DOMAIN n

StoreOf(ns) ==
    [a \in {b \in 0..(2 * Len(ns) - 1) : b % 2 = 0 \/ HasTiming(ns[(b \div 2) + 1])} |->
        IF a % 2 = 1 THEN ns[(a \div 2) + 1].timing
        ELSE IF HasTiming(ns[(a \div 2) + 1])
        THEN [ns[(a \div 2) + 1] EXCEPT !.timing = a + 1]
        ELSE ns[(a \div 2) + 1]]

RefsOf(ns) == [i \in 1..Len(ns) |-> 2 * (i - 1)]

\* the value of the note at address a: its dict with the timing dict nested
NoteVal(h, a) == IF HasTiming(h[a]) THEN [h[a] EXCEPT !.timing = h[h[a].timing]] ELSE h[a]

Vals(h, notes) == [i \in 1..Len(notes) |-> NoteVal(h, notes[i])]

\* the objects a note list reaches: the notes and their timing dicts
Reach(h, notes) ==
    {notes[i] : i \in 1..Len(notes)}
    \cup {h[notes[i]].timing : i \in {j \in 1..Len(notes) : HasTiming(h[notes[j]])}}

Restrict(h, S) == [a \in S |-> h[a]]

\* the lowest free address
FreshAddr(h) ==
    CHOOSE a \in 0..Cardinality(DOMAIN h) :
        a \notin DOMAIN h /\ \A b \in 0..(a - 1) : b \in DOMAIN h

\* copy.copy(note): a new note dict that shares the nested timing dict
shallow_copy(h, a) ==
    LET n == FreshAddr(h)
    IN  [heap |-> h @@ (n :> h[a]), ref |-> n]

\* copy.deepcopy(note): a new note dict with a new timing dict
deepcopy(h, a) ==
    IF HasTiming(h[a])
    THEN LET t  == FreshAddr(h)
             h1 == h @@ (t :> h[h[a].timing])
             n  == FreshAddr(h1)
         IN  [heap |-> h1 @@ (n :> [h[a] EXCEPT !.timing = t]), ref |-> n]
    ELSE LET n == FreshAddr(h)
         IN  [heap |-> h @@ (n :> h[a]), ref |-> n]

----------------------------------------------------------------------------
(* SongEditor.                                                             *)

\* SongEditor.__init__: title, bpm and notes with their defaults; self.notes
\* is the caller's list, not the deep copy kept in self.song_data
SongEditor(sd) ==
    [title |-> IF "title" \in DOMAIN sd THEN sd.title ELSE "Untitled",
     bpm   |-> IF "bpm" \in DOMAIN sd THEN sd.bpm ELSE 120,
     notes |-> IF "notes" \in DOMAIN sd THEN sd.notes ELSE <<>>]

\* measure_beat_range with the start computed like the end, (start_measure - 1)
measure_beat_range_off_by_one(start_measure, end_measure, beats_per_measure, pickup_beats) ==
    LET first_measure_beats ==
            IF pickup_beats # None THEN pickup_beats[1] ELSE beats_per_measure
        start_beat ==
            IF start_measure = 1 THEN 0
            ELSE first_measure_beats + (start_measure - 1) * beats_per_measure
        end_beat ==
            IF end_measure = 1 THEN first_measure_beats
            ELSE first_measure_beats + (end_measure - 1) * beats_per_measure
    IN  <<start_beat, end_beat>>

\* measure_beat_range with the pickup measure forgotten in the start beat
measure_beat_range_start_no_pickup(start_measure, end_measure, beats_per_measure, pickup_beats) ==
    LET first_measure_beats ==
            IF pickup_beats # None THEN pickup_beats[1] ELSE beats_per_measure
        start_beat ==
            IF start_measure = 1 THEN 0
            ELSE beats_per_measure + (start_measure - 2) * beats_per_measure
        end_beat ==
            IF end_measure = 1 THEN first_measure_beats
            ELSE first_measure_beats + (end_measure - 1) * beats_per_measure
    IN  <<start_beat, end_beat>>

\* extract_measures, lines 44-59: the beat window <<start_beat, end_beat>> of
\* measures start_measure..end_measure, the first measure pickup_beats long
measure_beat_range(start_measure, end_measure, beats_per_measure, pickup_beats) ==
    LET first_measure_beats ==
            IF pickup_beats # None THEN pickup_beats[1] ELSE beats_per_measure
        start_beat ==
            IF start_measure = 1 THEN 0
            ELSE first_measure_beats + (start_measure - 2) * beats_per_measure
        end_beat ==
            IF end_measure = 1 THEN first_measure_beats
            ELSE first_measure_beats + (end_measure - 1) * beats_per_measure
    IN  <<start_beat, end_beat>>

\* in_beat_range with the end of the window included
in_beat_range_end_inclusive(note_beat, start_beat, end_beat) ==
    start_beat <= note_beat /\ note_beat <= end_beat

\* _extract_beats: the test that selects a note
in_beat_range(note_beat, start_beat, end_beat) ==
    start_beat <= note_beat /\ note_beat < end_beat

\* rebase with the operands swapped
rebase_swapped(note_beat, start_beat) == start_beat - note_beat

\* _extract_beats: the beat written into the copy
rebase(note_beat, start_beat) == note_beat - start_beat

\* extract_loop inserting each copy at the front of the list
RECURSIVE extract_loop_prepend(_, _, _, _, _, _)
extract_loop_prepend(h, notes, i, start_beat, end_beat, extracted_notes) ==
    IF i > Len(notes) THEN [heap |-> h, notes |-> extracted_notes]
    ELSE LET note      == notes[i]
             note_beat == h[h[note].timing].beat
         IN  IF in_beat_range(note_beat, start_beat, end_beat)
             THEN LET c  == deepcopy(h, note)
                      t  == c.heap[c.ref].timing
                      h2 == [c.heap EXCEPT ![t].beat = rebase(note_beat, start_beat)]
                  IN  extract_loop_prepend(h2, notes, i + 1, start_beat, end_beat,
                                           <<c.ref>> \o extracted_notes)
             ELSE extract_loop_prepend(h, notes, i + 1, start_beat, end_beat,
                                       extracted_notes)

\* _extract_beats: the loop over self.notes from index i on
RECURSIVE extract_loop(_, _, _, _, _, _)
extract_loop(h, notes, i, start_beat, end_beat, extracted_notes) ==
    IF i > Len(notes) THEN [heap |-> h, notes |-> extracted_notes]
    ELSE LET note      == notes[i]
             note_beat == h[h[note].timing].beat
         IN  IF in_beat_range(note_beat, start_beat, end_beat)
             THEN LET c  == deepcopy(h, note)
                      t  == c.heap[c.ref].timing
                      h2 == [c.heap EXCEPT ![t].beat = rebase(note_beat, start_beat)]
                  IN  extract_loop(h2, notes, i + 1, start_beat, end_beat,
                                   Append(extracted_notes, c.ref))
             ELSE extract_loop(h, notes, i + 1, start_beat, end_beat, extracted_notes)

\* SongEditor._extract_beats
_extract_beats(self, h, start_beat, end_beat, title_suffix) ==
    LET r == extract_loop(h, self.notes, 1, start_beat, end_beat, <<>>)
    IN  [heap   |-> r.heap,
         result |-> [title |-> self.title \o " (" \o title_suffix \o ")",
                     bpm   |-> self.bpm,
                     notes |-> r.notes]]

\* SongEditor.extract_measures
extract_measures(self, h, start_measure, end_measure, beats_per_measure, pickup_beats) ==
    LET w == measure_beat_range(start_measure, end_measure, beats_per_measure, pickup_beats)
    IN  _extract_beats(self, h, w[1], w[2],
                       "measures " \o ToString(start_measure) \o "-" \o ToString(end_measure))

\* SongEditor.extract_beats
extract_beats(self, h, start_beat, end_beat) ==
    _extract_beats(self, h, start_beat, end_beat,
                   "beat " \o ToString(start_beat) \o "-" \o ToString(end_beat))

\* pitch_in_range testing the bounds for truth, so that a bound of 0 counts as absent
pitch_in_range_truthy(pitch, min_pitch, max_pitch) ==
    /\ ~(min_pitch # None /\ min_pitch[1] # 0 /\ pitch < min_pitch[1])
    /\ ~(max_pitch # None /\ max_pitch[1] # 0 /\ pitch > max_pitch[1])

\* filter_by_pitch: the range check on one pitch (True: the note is kept)
pitch_in_range(pitch, min_pitch, max_pitch) ==
    /\ ~(min_pitch # None /\ pitch < min_pitch[1])
    /\ ~(max_pitch # None /\ pitch > max_pitch[1])

\* filter_by_pitch: the loop over self.notes from index i on
RECURSIVE pitch_loop(_, _, _, _, _, _)
pitch_loop(h, notes, i, min_pitch, max_pitch, filtered_notes) ==
    IF i > Len(notes) THEN [heap |-> h, notes |-> filtered_notes]
    ELSE IF pitch_in_range(h[notes[i]].pitch, min_pitch, max_pitch)
         THEN LET c == deepcopy(h, notes[i])
              IN  pitch_loop(c.heap, notes, i + 1, min_pitch, max_pitch,
                             Append(filtered_notes, c.ref))
         ELSE pitch_loop(h, notes, i + 1, min_pitch, max_pitch, filtered_notes)

\* filter_by_pitch: the title, annotated with the bounds that are given
pitch_title(title, min_pitch, max_pitch) ==
    LET lo == IF min_pitch # None THEN <<">=" \o ToString(min_pitch[1])>> ELSE <<>>
        hi == IF max_pitch # None THEN <<"<=" \o ToString(max_pitch[1])>> ELSE <<>>
        title_suffix == lo \o hi
    IN  CASE Len(title_suffix) = 0 -> title
          [] Len(title_suffix) = 1 -> title \o " (" \o title_suffix[1] \o ")"
          [] OTHER -> title \o " (" \o title_suffix[1] \o ", " \o title_suffix[2] \o ")"

\* SongEditor.filter_by_pitch
filter_by_pitch(self, h, min_pitch, max_pitch) ==
    LET r == pitch_loop(h, self.notes, 1, min_pitch, max_pitch, <<>>)
    IN  [heap   |-> r.heap,
         result |-> [title |-> pitch_title(self.title, min_pitch, max_pitch),
                     bpm   |-> self.bpm,
                     notes |-> r.notes]]

\* keep_right with the threshold itself excluded
keep_right_strict(note, threshold, use_hand_field) ==
    IF use_hand_field /\ "hand" \in DOMAIN note
    THEN note.hand = "right"
    ELSE note.pitch > threshold

\* filter_right_hand: whether the loop body appends the note
keep_right(note, threshold, use_hand_field) ==
    IF use_hand_field /\ "hand" \in DOMAIN note
    THEN note.hand = "right"
    ELSE note.pitch >= threshold

\* keep_left with the threshold itself included
keep_left_inclusive(note, threshold, use_hand_field) ==
    IF use_hand_field /\ "hand" \in DOMAIN note
    THEN note.hand = "left"
    ELSE note.pitch <= threshold

\* filter_left_hand: whether the loop body appends the note
keep_left(note, threshold, use_hand_field) ==
    IF use_hand_field /\ "hand" \in DOMAIN note
    THEN note.hand = "left"
    ELSE note.pitch < threshold

\* filter_right_hand: the loop over self.notes from index i on
RECURSIVE right_loop(_, _, _, _, _, _)
right_loop(h, notes, i, threshold, use_hand_field, filtered_notes) ==
    IF i > Len(notes) THEN [heap |-> h, notes |-> filtered_notes]
    ELSE IF keep_right(h[notes[i]], threshold, use_hand_field)
         THEN LET c == deepcopy(h, notes[i])
              IN  right_loop(c.heap, notes, i + 1, threshold, use_hand_field,
                             Append(filtered_notes, c.ref))
         ELSE right_loop(h, notes, i + 1, threshold, use_hand_field, filtered_notes)

\* filter_left_hand: the loop over self.notes from index i on
RECURSIVE left_loop(_, _, _, _, _, _)
left_loop(h, notes, i, threshold, use_hand_field, filtered_notes) ==
    IF i > Len(notes) THEN [heap |-> h, notes |-> filtered_notes]
    ELSE IF keep_left(h[notes[i]], threshold, use_hand_field)
         THEN LET c == deepcopy(h, notes[i])
              IN  left_loop(c.heap, notes, i + 1, threshold, use_hand_field,
                            Append(filtered_notes, c.ref))
         ELSE left_loop(h, notes, i + 1, threshold, use_hand_field, filtered_notes)

\* filter_right_hand with the loop starting at the second note
filter_right_hand_skip_first(self, h, threshold, use_hand_field) ==
    LET r == right_loop(h, self.notes, 2, threshold, use_hand_field, <<>>)
    IN  [heap   |-> r.heap,
         result |-> [title |-> self.title \o " (RH)", bpm |-> self.bpm, notes |-> r.notes]]

\* SongEditor.filter_right_hand
filter_right_hand(self, h, threshold, use_hand_field) ==
    LET r == right_loop(h, self.notes, 1, threshold, use_hand_field, <<>>)
    IN  [heap   |-> r.heap,
         result |-> [title |-> self.title \o " (RH)", bpm |-> self.bpm, notes |-> r.notes]]

\* SongEditor.filter_left_hand
filter_left_hand(self, h, threshold, use_hand_field) ==
    LET r == left_loop(h, self.notes, 1, threshold, use_hand_field, <<>>)
    IN  [heap   |-> r.heap,
         result |-> [title |-> self.title \o " (LH)", bpm |-> self.bpm, notes |-> r.notes]]

----------------------------------------------------------------------------
(* The transforms as steps: Spec applies them to the editor of the source  *)
(* song; SpecSeq also feeds a result to a new editor, as main() does.      *)

NoCall == [op |-> "none", editor_no |-> 0]

\* outside main(): the command line variables stay idle
MainIdle ==
    /\ args = None /\ infile = None /\ outfile = None
    /\ pc = "lib" /\ exit_code = None /\ log = <<>>

\* a song dict over the notes ns, fresh in the store, and its SongEditor
InitSong(hd, ns) ==
    LET sd == [hd EXCEPT !.notes = RefsOf(ns)]
    IN  /\ heap = StoreOf(ns)
        /\ song_data = sd
        /\ orig = [hd EXCEPT !.notes = ns]
        /\ editor = SongEditor(sd)
        /\ result = None
        /\ call = NoCall
        /\ neditors = 1

FullHeader == [title |-> "T", bpm |-> 90, notes |-> <<>>]

Init ==
    /\ \E ns \in SortedNoteLists(NoteValues, MaxNotes) : InitSong(FullHeader, ns)
    /\ MainIdle

\* the objects still referenced when a transform starts: the previous result
\* is dropped unless an editor holds its notes
Live ==
    Restrict(heap, Reach(heap, song_data.notes) \cup Reach(heap, editor.notes))

\* a call of a transform on the current editor, returning r; each SongEditor
\* instance makes one call, as the instances of main() do
Returned(r, c) ==
    /\ pc = "lib"
    /\ call.editor_no # neditors
    /\ heap' = r.heap
    /\ result' = r.result
    /\ call' = c @@ [input |-> Vals(heap, editor.notes), notes |-> editor.notes,
                     self |-> editor, editor_no |-> neditors]
    /\ UNCHANGED <<song_data, editor, orig, neditors>>
    /\ UNCHANGED mainvars

ExtractMeasures(start_measure, end_measure, beats_per_measure, pickup_beats) ==
    Returned(extract_measures(editor, Live, start_measure, end_measure,
                              beats_per_measure, pickup_beats),
             [op |-> "extract_measures",
              start_beat |-> measure_beat_range(start_measure, end_measure,
                                                beats_per_measure, pickup_beats)[1],
              end_beat |-> measure_beat_range(start_measure, end_measure,
                                              beats_per_measure, pickup_beats)[2],
              start_measure |-> start_measure, end_measure |-> end_measure,
              beats_per_measure |-> beats_per_measure, pickup_beats |-> pickup_beats])

ExtractBeats(start_beat, end_beat) ==
    Returned(extract_beats(editor, Live, start_beat, end_beat),
             [op |-> "extract_beats", start_beat |-> start_beat, end_beat |-> end_beat])

FilterByPitch(min_pitch, max_pitch) ==
    Returned(filter_by_pitch(editor, Live, min_pitch, max_pitch),
             [op |-> "filter_by_pitch", min_pitch |-> min_pitch, max_pitch |-> max_pitch])

FilterRightHand(threshold, use_hand_field) ==
    Returned(filter_right_hand(editor, Live, threshold, use_hand_field),
             [op |-> "filter_right_hand",
              threshold |-> threshold, use_hand_field |-> use_hand_field])

FilterLeftHand(threshold, use_hand_field) ==
    Returned(filter_left_hand(editor, Live, threshold, use_hand_field),
             [op |-> "filter_left_hand",
              threshold |-> threshold, use_hand_field |-> use_hand_field])

\* main, lines 333 and 340: editor = SongEditor(result)
Rewrap ==
    /\ pc = "lib"
    /\ result # None
    /\ neditors < MaxEditors
    /\ call.editor_no = neditors
    /\ editor' = SongEditor(result)
    /\ neditors' = neditors + 1
    /\ UNCHANGED <<heap, song_data, result, call, orig>>
    /\ UNCHANGED mainvars

OptPitches == {None} \cup {Some(p) : p \in Pitches}

Next ==
    \/ \E sm \in {1, 2}, em \in {1, 2}, pk \in {None, Some(2)} :
            ExtractMeasures(sm, em, 1, pk)
    \/ \E s \in BeatArgs, e \in BeatArgs : ExtractBeats(s, e)
    \/ \E lo \in OptPitches, hi \in OptPitches : FilterByPitch(lo, hi)
    \/ \E t \in Thresholds, u \in BOOLEAN : FilterRightHand(t, u)
    \/ \E t \in Thresholds, u \in BOOLEAN : FilterLeftHand(t, u)

Spec == Init /\ [][Next]_vars

\* chains of transforms, each applied to the result of the one before
InitSeq ==
    /\ \E ns \in SortedNoteLists(SeqNoteValues, MaxSeqNotes) : InitSong(FullHeader, ns)
    /\ MainIdle

NextSeq ==
    \/ ExtractMeasures(2, 2, 1, None)
    \/ \E w \in {<<0, 1>>, <<0, 2>>} : ExtractBeats(w[1], w[2])
    \/ \E b \in {<<Some(1), None>>, <<None, None>>} : FilterByPitch(b[1], b[2])
    \/ \E u \in BOOLEAN : FilterRightHand(1, u)
    \/ FilterLeftHand(1, TRUE)
    \/ Rewrap

SpecSeq == InitSeq /\ [][NextSeq]_vars

\* the measure arithmetic over a wide range of arguments
MeasureBeats == 0..7

MeasureNoteValues == {MkNote(0, b, 2, None, None) : b \in MeasureBeats}

InitMeasures ==
    /\ \E ns \in SortedNoteLists(MeasureNoteValues, MaxNotes) : InitSong(FullHeader, ns)
    /\ MainIdle

NextMeasures ==
    \E sm \in 1..MaxMeasure, em \in 1..MaxMeasure, bpm \in 1..MaxBeatsPerMeasure,
       pk \in {None} \cup {Some(k) : k \in 1..MaxBeatsPerMeasure} :
        ExtractMeasures(sm, em, bpm, pk)

SpecMeasures == InitMeasures /\ [][NextMeasures]_vars

----------------------------------------------------------------------------
(* Properties of the transforms.  In a state reached by a transform, call   *)
(* holds its arguments and the notes it was given (by value), result what   *)
(* it returned.                                                             *)

\* the notes of the last result, by value
Out == Vals(heap, result.notes)

IsExtract == call.op \in {"extract_beats", "extract_measures"}
IsFilter  == call.op \in {"filter_by_pitch", "filter_right_hand", "filter_left_hand"}
IsHandFilter == call.op \in {"filter_right_hand", "filter_left_hand"}

\* whether the note n has the key "hand" with value hd
Marked(n, hd) == "hand" \in DOMAIN n /\ n.hand = hd

\* the note n with its beat set to b
WithBeat(n, b) == [n EXCEPT !.timing = [@ EXCEPT !.beat = b]]

\* the notes of ns at the indices in S, in the order of ns
Pick(ns, S) ==
    LET F[i \in 0..Len(ns)] ==
            IF i = 0 THEN <<>>
            ELSE IF i \in S THEN Append(F[i - 1], ns[i]) ELSE F[i - 1]
    IN  F[Len(ns)]

\* C1 as stated: in hand-field mode (use_hand_field true) filter_right_hand keeps
\* exactly the notes explicitly marked right and filter_left_hand exactly the
\* notes explicitly marked left; a note with no hand key is never kept.
C1_HandFieldOnly ==
    (IsHandFilter /\ call.use_hand_field) =>
        LET hd == IF call.op = "filter_right_hand" THEN "right" ELSE "left"
            Kept(n) == Marked(n, hd)
        IN  Out = SelectSeq(call.input, Kept)

\* C1 as amended: in hand-field mode filter_right_hand keeps a note iff it is
\* marked right, or has no hand key and pitch >= threshold; filter_left_hand
\* keeps a note iff it is marked left, or has no hand key and pitch < threshold.
C1_HandFieldWithPitchFallback ==
    (IsHandFilter /\ call.use_hand_field) =>
        LET KeptRight(n) == IF "hand" \in DOMAIN n THEN n.hand = "right"
                            ELSE n.pitch >= call.threshold
            KeptLeft(n)  == IF "hand" \in DOMAIN n THEN n.hand = "left"
                            ELSE n.pitch < call.threshold
        IN  IF call.op = "filter_right_hand"
            THEN Out = SelectSeq(call.input, KeptRight)
            ELSE Out = SelectSeq(call.input, KeptLeft)

\* the example of the specification: one note marked left and one unmarked note,
\* both at a pitch above the threshold, through filter_right_hand in hand-field
\* mode (the unmarked note is the one returned)
C1_Witness ==
    /\ call.op = "filter_right_hand" /\ call.use_hand_field
    /\ Len(call.input) = 2
    /\ Marked(call.input[1], "left") /\ "hand" \notin DOMAIN call.input[2]
    /\ call.input[1].pitch = call.input[2].pitch
    /\ call.input[1].pitch > call.threshold
    /\ Len(Out) = 1

\* C2: _extract_beats returns exactly the notes whose start beat b satisfies
\* start_beat <= b < end_beat, each once and in order, with pitch, duration,
\* velocity and hand as in the source (the beat is C3's subject).
C2_ExtractKeepsNotesStartingInWindow ==
    IsExtract =>
        LET InWindow(n) == call.start_beat <= n.timing.beat /\ n.timing.beat < call.end_beat
            sel == SelectSeq(call.input, InWindow)
        IN  [i \in 1..Len(Out) |-> WithBeat(Out[i], 0)]
                = [i \in 1..Len(sel) |-> WithBeat(sel[i], 0)]

\* a window with a note that starts before it and sustains into it (dropped) and
\* a note that starts in it and sustains past its end (kept, duration untouched)
C2_Witness ==
    /\ call.op = "extract_beats" /\ call.start_beat < call.end_beat
    /\ Len(call.input) = 2 /\ Len(Out) = 1
    /\ call.input[1].timing.beat < call.start_beat
    /\ call.input[1].timing.beat + call.input[1].timing.duration > call.start_beat
    /\ call.input[2].timing.beat + call.input[2].timing.duration > call.end_beat
    /\ Out[1].timing.duration = call.input[2].timing.duration

\* C3: the i-th note returned by _extract_beats has the beat of the i-th selected
\* source note minus start_beat, and 0 <= that beat < end_beat - start_beat.
C3_ExtractRebasesToWindowStart ==
    IsExtract =>
        LET InWindow(n) == call.start_beat <= n.timing.beat /\ n.timing.beat < call.end_beat
            sel == SelectSeq(call.input, InWindow)
        IN  /\ Len(Out) = Len(sel)
            /\ \A i \in 1..Len(Out) :
                /\ Out[i].timing.beat = sel[i].timing.beat - call.start_beat
                /\ 0 <= Out[i].timing.beat
                /\ Out[i].timing.beat < call.end_beat - call.start_beat

\* a window starting after beat 0 that keeps a note at its start and a later one
C3_Witness ==
    /\ call.op = "extract_beats" /\ call.start_beat > 0
    /\ Len(Out) = 2
    /\ Out[1].timing.beat = 0 /\ Out[2].timing.beat > 0

\* C4: for 1 <= start_measure <= end_measure the window of extract_measures is
\* start 0 for measure 1, else first + (start_measure - 2) * beats_per_measure, and
\* end first for measure 1, else first + (end_measure - 1) * beats_per_measure,
\* first being pickup_beats if given, else beats_per_measure; so (1,1,4) gives
\* (0,4), (2,2,4) gives (4,8) and (1,4,4) with pickup 2 gives (0,14).
C4_MeasureWindow ==
    (call.op = "extract_measures" /\ call.start_measure <= call.end_measure) =>
        LET sm == call.start_measure
            em == call.end_measure
            n  == call.beats_per_measure
            firstBeats == IF call.pickup_beats = None THEN n ELSE call.pickup_beats[1]
            w  == <<call.start_beat, call.end_beat>>
        IN  /\ call.start_beat = IF sm = 1 THEN 0 ELSE firstBeats + (sm - 2) * n
            /\ call.end_beat = IF em = 1 THEN firstBeats ELSE firstBeats + (em - 1) * n
            /\ (sm = 1 /\ em = 1 /\ n = 4 /\ call.pickup_beats = None) => w = <<0, 4>>
            /\ (sm = 2 /\ em = 2 /\ n = 4 /\ call.pickup_beats = None) => w = <<4, 8>>
            /\ (sm = 1 /\ em = 4 /\ n = 4 /\ call.pickup_beats = Some(2)) => w = <<0, 14>>

\* measures 2 to 4 of a piece with a pickup measure of 2 beats: beats 2 to 14
C4_Witness ==
    /\ call.op = "extract_measures"
    /\ call.start_measure = 2 /\ call.end_measure = 4
    /\ call.beats_per_measure = 4 /\ call.pickup_beats = Some(2)
    /\ call.start_beat = 2 /\ call.end_beat = 14
    /\ result # None

\* C5: filter_by_pitch returns exactly the notes with pitch >= min_pitch when
\* min_pitch is given and pitch <= max_pitch when max_pitch is given (bounds
\* inclusive, a bound of 0 is a bound), in order and unchanged.
C5_PitchFilterInclusiveBounds ==
    call.op = "filter_by_pitch" =>
        LET Kept(n) == /\ call.min_pitch = None \/ n.pitch >= call.min_pitch[1]
                       /\ call.max_pitch = None \/ n.pitch <= call.max_pitch[1]
        IN  /\ Out = SelectSeq(call.input, Kept)
            /\ (call.min_pitch = None /\ call.max_pitch = None) => Out = call.input

\* an upper bound of 0 that drops a note above it and keeps a note at it
C5_Witness ==
    /\ call.op = "filter_by_pitch"
    /\ call.min_pitch = None /\ call.max_pitch = Some(0)
    /\ Len(call.input) = 2 /\ Len(Out) = 1
    /\ Out[1].pitch = 0

\* C6: in pitch mode (use_hand_field false) filter_right_hand returns exactly the
\* notes with pitch >= threshold and filter_left_hand exactly those with
\* pitch < threshold, whatever their hand key; the two results split the notes.
C6_PitchModeSplitsAtThreshold ==
    (IsHandFilter /\ ~call.use_hand_field) =>
        LET Kept(n) == IF call.op = "filter_right_hand"
                       THEN n.pitch >= call.threshold
                       ELSE n.pitch < call.threshold
            r == filter_right_hand(call.self, Live, call.threshold, FALSE)
            l == filter_left_hand(call.self, Live, call.threshold, FALSE)
        IN  /\ Out = SelectSeq(call.input, Kept)
            /\ Len(r.result.notes) + Len(l.result.notes) = Len(call.input)
            /\ \A i \in 1..Len(call.input) :
                  (\E j \in 1..Len(r.result.notes) :
                        NoteVal(r.heap, r.result.notes[j]) = call.input[i])
                  # (\E j \in 1..Len(l.result.notes) :
                        NoteVal(l.heap, l.result.notes[j]) = call.input[i])

\* a note marked left at the threshold is returned by filter_right_hand in pitch
\* mode, and a note marked right below the threshold is not
C6_Witness ==
    /\ call.op = "filter_right_hand" /\ ~call.use_hand_field
    /\ Len(call.input) = 2 /\ Len(Out) = 1
    /\ Marked(call.input[1], "right") /\ call.input[1].pitch < call.threshold
    /\ Marked(call.input[2], "left") /\ call.input[2].pitch = call.threshold
    /\ Out[1] = call.input[2]

\* the last filter call made again, on a SongEditor of its own result
Again ==
    CASE call.op = "filter_by_pitch" ->
            filter_by_pitch(SongEditor(result), heap, call.min_pitch, call.max_pitch)
      [] call.op = "filter_right_hand" ->
            filter_right_hand(SongEditor(result), heap, call.threshold, call.use_hand_field)
      [] call.op = "filter_left_hand" ->
            filter_left_hand(SongEditor(result), heap, call.threshold, call.use_hand_field)

\* C7 as stated: a filter applied to its own output returns the same song: the
\* same title, bpm and notes.
C7_FilterTwiceSameSong ==
    IsFilter =>
        /\ Vals(Again.heap, Again.result.notes) = Out
        /\ Again.result.bpm = result.bpm
        /\ Again.result.title = result.title

\* C7 as amended: a filter applied to its own output returns the same notes and
\* bpm; the title is the same only for filter_by_pitch with neither bound given,
\* otherwise the annotation is appended a second time.
C7_FilterTwiceSameNotes ==
    IsFilter =>
        /\ Vals(Again.heap, Again.result.notes) = Out
        /\ Again.result.bpm = result.bpm
        /\ (Again.result.title = result.title)
              <=> (call.op = "filter_by_pitch" /\ call.min_pitch = None
                                               /\ call.max_pitch = None)

\* a hand filter that returned one note and dropped one
C7_Witness ==
    /\ call.op = "filter_right_hand" /\ call.use_hand_field
    /\ Len(Out) = 1 /\ Len(call.input) = 2
    /\ Vals(Again.heap, Again.result.notes) = Out
    /\ Again.result.title # result.title

\* C8: every transform, alone or applied to the result of another, returns the
\* notes in ascending beat order when it was given them in ascending beat order,
\* and returns them in the order it was given them (chord notes included): the
\* result, beats shifted back, is the input with some notes left out.
C8_TransformsKeepBeatOrder ==
    call.op # "none" =>
        LET shift == IF IsExtract THEN call.start_beat ELSE 0
            back  == [i \in 1..Len(Out) |-> WithBeat(Out[i], Out[i].timing.beat + shift)]
        IN  /\ IsSorted(call.input) => IsSorted(Out)
            /\ \E S \in SUBSET (1..Len(call.input)) : back = Pick(call.input, S)

\* the second transform of a chain returning both notes of a chord, in source order
C8_Witness ==
    /\ call.op # "none" /\ call.editor_no = 2
    /\ Len(Out) = 2
    /\ Out[1].timing.beat = Out[2].timing.beat
    /\ Out[1].pitch # Out[2].pitch
    /\ Out[1].pitch = call.input[1].pitch

\* C9: no transform changes what it is given: the source song keeps its title,
\* bpm and every note field, the notes given to the last call keep their values,
\* and the result shares no note dict and no timing dict with the source song or
\* with the notes the call was given.
C9_TransformsLeaveInputUntouched ==
    /\ [song_data EXCEPT !.notes = Vals(heap, song_data.notes)] = orig
    /\ call.op # "none" =>
        /\ Vals(heap, call.notes) = call.input
        /\ Reach(heap, result.notes)
              \cap (Reach(heap, song_data.notes) \cup Reach(heap, call.notes)) = {}

\* the second transform of a chain, an extraction that wrote a re-based beat
\* into the copy of a note
C9_Witness ==
    /\ IsExtract /\ call.editor_no = 2 /\ call.start_beat > 0
    /\ Len(Out) > 0
    /\ \E i \in 1..Len(call.input) :
          /\ call.input[i].timing.beat = call.start_beat
          /\ Out[1] = WithBeat(call.input[i], 0)

----------------------------------------------------------------------------
(* main(): one invocation of the command line tool.                         *)

\* the truth value Python gives an Optional[int]: None and 0 are false
Truthy(x) == x # None /\ x[1] # 0

\* the note dicts a JSON file can hold, all at beat 0: the notes conv.py writes,
\* a note that spells the defaults out (velocity 80, hand right), and notes
\* without "pitch" or without "timing" (json.load returns any JSON value)
MainNoteValues ==
    {MkNote(p, 0, 1, None, hd) : p \in Pitches, hd \in {None, Some("left")}}
    \cup {MkNote(1, 0, 1, Some(80), Some("right"))}
    \cup {[timing |-> [beat |-> 0, duration |-> 1]],
          [timing |-> [beat |-> 0, duration |-> 1], hand |-> "right"],
          [pitch |-> 1]}

MainNoteLists == UNION {[1..k -> MainNoteValues] : k \in 0..MaxMainNotes}

\* what the input path holds: nothing, text that is not JSON, or a song
InFiles ==
    {[kind |-> "missing"], [kind |-> "invalid"]}
    \cup {[kind |-> "song", header |-> hd, notes |-> ns] :
            hd \in Headers, ns \in MainNoteLists}

\* the namespaces parse_args can return (--beats and --threshold at one value);
\* argparse takes any two ints for --measures, any two floats for --beat-range
\* and any int for --bpm
ArgSets ==
    [right_hand : BOOLEAN, left_hand : BOOLEAN, use_pitch_threshold : BOOLEAN,
     threshold : {1},
     min_pitch : {None, Some(1)}, max_pitch : {None, Some(0)},
     measures : {None, Some(<<1, 1>>), Some(<<2, 1>>)}, beats : {1}, pickup_beats : {None},
     beat_range : {None, Some(<<0, 1>>), Some(<<1, 0>>)},
     bpm : {None, Some(100), Some(0)}]

NoLog == [loaded |-> FALSE, transforms |-> 0, writes |-> 0, errors |-> 0]

InitMain ==
    /\ args \in ArgSets
    /\ infile \in InFiles
    /\ outfile = None
    /\ pc = "check"
    /\ exit_code = None
    /\ log = NoLog
    /\ heap = <<>>
    /\ song_data = None
    /\ editor = None
    /\ result = None
    /\ call = NoCall
    /\ orig = None
    /\ neditors = 0

\* print(..., file=sys.stderr); sys.exit(1)
ErrorExit ==
    /\ pc' = "exited"
    /\ exit_code' = Some(1)
    /\ log' = [log EXCEPT !.errors = @ + 1]

\* main, lines 299-310: the checks of contradicting options
CheckOptions ==
    /\ pc = "check"
    /\ IF args.right_hand /\ args.left_hand
       THEN ErrorExit
       ELSE IF (args.right_hand \/ args.left_hand)
                /\ (Truthy(args.min_pitch) \/ Truthy(args.max_pitch))
       THEN ErrorExit
       ELSE IF args.measures # None /\ args.beat_range # None
       THEN ErrorExit
       ELSE pc' = "load" /\ UNCHANGED <<exit_code, log>>
    /\ UNCHANGED <<args, infile, outfile>>
    /\ UNCHANGED libvars

\* main, lines 312-319 and the handlers of lines 370-375: load_json, the editor
\* and result = song_data
Load ==
    /\ pc = "load"
    /\ IF infile.kind # "song"
       THEN /\ ErrorExit
            /\ UNCHANGED libvars
       ELSE LET sd == [infile.header EXCEPT !.notes = RefsOf(infile.notes)]
            IN  /\ heap' = StoreOf(infile.notes)
                /\ song_data' = sd
                /\ orig' = [infile.header EXCEPT !.notes = infile.notes]
                /\ editor' = SongEditor(sd)
                /\ result' = sd
                /\ neditors' = 1
                /\ pc' = "bpm"
                /\ log' = [log EXCEPT !.loaded = TRUE]
                /\ UNCHANGED <<call, exit_code>>
    /\ UNCHANGED <<args, infile, outfile>>

\* main, lines 321-323: editor.bpm = args.bpm
OverrideBpm ==
    /\ pc = "bpm"
    /\ editor' = IF args.bpm # None THEN [editor EXCEPT !.bpm = args.bpm[1]] ELSE editor
    /\ pc' = "measures"
    /\ UNCHANGED <<heap, song_data, result, call, orig, neditors>>
    /\ UNCHANGED <<args, infile, outfile, exit_code, log>>

\* _extract_beats, line 90: note["timing"] of a note without it is a KeyError
extract_raises(self, h) ==
    \E i \in 1..Len(self.notes) : ~HasTiming(h[self.notes[i]])

\* filter_by_pitch, line 121: note["pitch"] of a note without it is a KeyError
pitch_raises(self, h) ==
    \E i \in 1..Len(self.notes) : "pitch" \notin DOMAIN h[self.notes[i]]

\* filter_right_hand and filter_left_hand: note["pitch"] is read only in the
\* else branch, for a note that is not judged by its hand field
hand_raises(self, h, use_hand_field) ==
    \E i \in 1..Len(self.notes) :
        LET note == h[self.notes[i]]
        IN  ~(use_hand_field /\ "hand" \in DOMAIN note) /\ "pitch" \notin DOMAIN note

\* a transform raised: the handler of lines 376-378
Raised ==
    /\ ErrorExit
    /\ UNCHANGED <<heap, result, editor, neditors>>

\* a transform returned r: result = r; editor = SongEditor(result)
Chained(r, next_pc) ==
    /\ heap' = r.heap
    /\ result' = r.result
    /\ editor' = SongEditor(r.result)
    /\ neditors' = neditors + 1
    /\ pc' = next_pc
    /\ log' = [log EXCEPT !.transforms = @ + 1]
    /\ UNCHANGED exit_code

Skipped(next_pc) ==
    /\ pc' = next_pc
    /\ UNCHANGED <<heap, result, editor, neditors, log, exit_code>>

\* main, lines 325-333: --measures
Measures ==
    /\ pc = "measures"
    /\ IF args.measures = None
       THEN Skipped("beat_range")
       ELSE IF extract_raises(editor, heap)
       THEN Raised
       ELSE Chained(extract_measures(editor, heap, args.measures[1][1], args.measures[1][2],
                                     args.beats, args.pickup_beats), "beat_range")
    /\ UNCHANGED <<song_data, call, orig>>
    /\ UNCHANGED <<args, infile, outfile>>

\* main, lines 335-340: --beat-range
BeatRange ==
    /\ pc = "beat_range"
    /\ IF args.beat_range = None
       THEN Skipped("filter")
       ELSE IF extract_raises(editor, heap)
       THEN Raised
       ELSE Chained(extract_beats(editor, heap, args.beat_range[1][1], args.beat_range[1][2]),
                    "filter")
    /\ UNCHANGED <<song_data, call, orig>>
    /\ UNCHANGED <<args, infile, outfile>>

\* a filter returned r: result = r (the editor is not replaced)
Filtered(r) ==
    /\ heap' = r.heap
    /\ result' = r.result
    /\ pc' = "save"
    /\ log' = [log EXCEPT !.transforms = @ + 1]
    /\ UNCHANGED <<editor, neditors, exit_code>>

\* main, lines 342-358: the hand filters and the pitch filter
Filter ==
    /\ pc = "filter"
    /\ LET use_hand_field == ~args.use_pitch_threshold
       IN  IF args.right_hand
           THEN IF hand_raises(editor, heap, use_hand_field)
                THEN Raised
                ELSE Filtered(filter_right_hand(editor, heap, args.threshold, use_hand_field))
           ELSE IF args.left_hand
           THEN IF hand_raises(editor, heap, use_hand_field)
                THEN Raised
                ELSE Filtered(filter_left_hand(editor, heap, args.threshold, use_hand_field))
           ELSE IF args.min_pitch # None \/ args.max_pitch # None
           THEN IF pitch_raises(editor, heap)
                THEN Raised
                ELSE Filtered(filter_by_pitch(editor, heap, args.min_pitch, args.max_pitch))
           ELSE Skipped("save")
    /\ UNCHANGED <<song_data, call, orig>>
    /\ UNCHANGED <<args, infile, outfile>>

\* save_json: json.dump of the dict as it is, every key it has
save_json(data, h) == [data EXCEPT !.notes = Vals(h, data.notes)]

\* main, lines 360-361: save_json(result, args.output); open() raises when the
\* output path cannot be written, and nothing is written then
Save ==
    /\ pc = "save"
    /\ \/ /\ outfile' = Some(save_json(result, heap))
          /\ log' = [log EXCEPT !.writes = @ + 1]
          /\ pc' = "stats"
          /\ UNCHANGED exit_code
       \/ /\ ErrorExit
          /\ UNCHANGED outfile
    /\ UNCHANGED libvars
    /\ UNCHANGED <<args, infile>>

\* main, lines 363-368 and the handler of lines 376-378: the statistics read
\* result['title'], a KeyError when the dict has no title
Stats ==
    /\ pc = "stats"
    /\ IF "title" \in DOMAIN result
       THEN pc' = "exited" /\ exit_code' = Some(0) /\ UNCHANGED log
       ELSE ErrorExit
    /\ UNCHANGED libvars
    /\ UNCHANGED <<args, infile, outfile>>

NextMain ==
    \/ CheckOptions
    \/ Load
    \/ OverrideBpm
    \/ Measures
    \/ BeatRange
    \/ Filter
    \/ Save
    \/ Stats

SpecMain == InitMain /\ [][NextMain]_vars

\* the option combinations the tool documents as contradictory
Contradictory(a) ==
    \/ a.right_hand /\ a.left_hand
    \/ (a.right_hand \/ a.left_hand) /\ (a.min_pitch # None \/ a.max_pitch # None)
    \/ a.measures # None /\ a.beat_range # None

\* C10: an invocation with contradictory options (--right-hand with --left-hand;
\* a hand filter with --min-pitch or --max-pitch of any value, 0 included;
\* --measures with --beat-range) reports an error and exits with a non-zero code
\* before it loads the input, runs a transform or writes the output.
C10_ContradictoryOptionsRejected ==
    (Contradictory(args) /\ pc = "exited") =>
        /\ exit_code # None /\ exit_code # Some(0)
        /\ log.errors > 0
        /\ ~log.loaded /\ log.transforms = 0 /\ outfile = None

\* a range given with its START above its END
Reversed(range) == range # None /\ range[1][1] > range[1][2]

\* C11: an invocation whose --measures START END or --beat-range START END has
\* START > END is a validation error: it exits with a non-zero code, runs no
\* transform and writes no output.
C11_ReversedRangeRejected ==
    ((Reversed(args.measures) \/ Reversed(args.beat_range)) /\ pc = "exited") =>
        /\ exit_code # None /\ exit_code # Some(0)
        /\ log.transforms = 0
        /\ outfile = None

\* C12: every successful invocation given --bpm N writes a song whose bpm is N,
\* whichever transform flags it was given, none included.
C12_BpmOverrideWritten ==
    (args.bpm # None /\ pc = "exited" /\ exit_code = Some(0)) =>
        /\ outfile # None
        /\ "bpm" \in DOMAIN outfile[1]
        /\ outfile[1].bpm = args.bpm[1]

\* C13: the output is written at most once, and only after the load and every
\* requested transform completed without error; an invocation that reports an
\* error exits with code 1 and has written nothing, and an invocation that has
\* written the output exits with code 0.
C13_OutputOnlyOnSuccess ==
    /\ log.writes <= 1
    /\ (outfile # None) <=> (log.writes = 1)
    /\ outfile # None => log.loaded /\ pc \in {"stats", "exited"}
    /\ log.errors > 0 => pc = "exited" /\ exit_code = Some(1) /\ outfile = None
    /\ (pc = "exited" /\ outfile # None) => exit_code = Some(0)

\* a note dict without its pitch or without its timing
Malformed(n) == "pitch" \notin DOMAIN n \/ "timing" \notin DOMAIN n

\* C14: an input song holding a note without pitch or without timing makes the
\* invocation fail for every combination of flags (no transform flag and a hand
\* filter in hand-field mode included): it exits with a non-zero code and writes
\* no output.
C14_MalformedNoteRejected ==
    (/\ infile.kind = "song"
     /\ \E i \in 1..Len(infile.notes) : Malformed(infile.notes[i])
     /\ pc = "exited") =>
        /\ exit_code # None /\ exit_code # Some(0)
        /\ outfile = None

\* C15: no note of a written song carries velocity 80 or hand "right": the
\* defaults are left out, also when the input spelled them out.
C15_DefaultsOmittedOnSave ==
    outfile # None =>
        \A i \in 1..Len(outfile[1].notes) :
            LET n == outfile[1].notes[i]
            IN  /\ "velocity" \in DOMAIN n => n.velocity # 80
                /\ "hand" \in DOMAIN n => n.hand # "right"

\* the validity rules of a song: bpm > 0 and, for every note, 0 <= pitch <= 127,
\* beat >= 0 and duration > 0
ValidNote(n) ==
    /\ ~Malformed(n)
    /\ 0 <= n.pitch /\ n.pitch <= 127
    /\ n.timing.beat >= 0
    /\ n.timing.duration > 0

ValidSong(song) ==
    /\ "bpm" \in DOMAIN song /\ song.bpm > 0
    /\ \A i \in 1..Len(song.notes) : ValidNote(song.notes[i])

\* C16: for every valid input song and every accepted command line (bpm override,
\* extraction window, filter), the written song is valid: 0 <= pitch <= 127,
\* beat >= 0, duration > 0 and bpm > 0.
C16_ValidityPreserved ==
    (/\ infile.kind = "song"
     /\ ValidSong([infile.header EXCEPT !.notes = infile.notes])
     /\ outfile # None) =>
        ValidSong(outfile[1])

----------------------------------------------------------------------------
(* Adjacent measure ranges.                                                 *)

\* the notes ns with every beat moved by d
Shifted(ns, d) == [i \in 1..Len(ns) |-> WithBeat(ns[i], ns[i].timing.beat + d)]

\* C17: adjacent measure ranges tile: for 1 <= a <= b < c the end beat of measures
\* a..b is the start beat of measures b+1..c, so extract_measures(a, c) keeps a
\* note exactly when one, and only one, of extract_measures(a, b) and
\* extract_measures(b+1, c) keeps it, and neither keeps any other note: its
\* result is the result for a..b followed by the result for b+1..c, the beats
\* of the latter counted from the start of measure a.
C17_AdjacentMeasureRangesTile ==
    (call.op = "extract_measures" /\ call.start_measure < call.end_measure) =>
        \A b \in call.start_measure..(call.end_measure - 1) :
            LET a   == call.start_measure
                c   == call.end_measure
                n   == call.beats_per_measure
                pk  == call.pickup_beats
                wlo == measure_beat_range(a, b, n, pk)
                whi == measure_beat_range(b + 1, c, n, pk)
                lo  == extract_measures(call.self, heap, a, b, n, pk)
                hi  == extract_measures(call.self, heap, b + 1, c, n, pk)
                InLo(x) == in_beat_range(x.timing.beat, wlo[1], wlo[2])
                InHi(x) == in_beat_range(x.timing.beat, whi[1], whi[2])
                InAll(x) == in_beat_range(x.timing.beat, call.start_beat, call.end_beat)
            IN  /\ wlo[2] = whi[1]
                /\ \A i \in 1..Len(call.input) :
                      /\ InAll(call.input[i]) <=> (InLo(call.input[i]) \/ InHi(call.input[i]))
                      /\ ~(InLo(call.input[i]) /\ InHi(call.input[i]))
                /\ Out = Vals(lo.heap, lo.result.notes)
                          \o Shifted(Vals(hi.heap, hi.result.notes), whi[1] - wlo[1])

\* measures 1 to 3 of a piece in 2 with a pickup of 1 beat, split after measure
\* 1: the note on beat 0 falls in measure 1, the note on beat 1, the boundary,
\* in measures 2 to 3, and both are kept
C17_Witness ==
    /\ call.op = "extract_measures"
    /\ call.start_measure = 1 /\ call.end_measure = 3
    /\ call.beats_per_measure = 2 /\ call.pickup_beats = Some(1)
    /\ Len(call.input) = 2
    /\ call.input[1].timing.beat = 0
    /\ call.input[2].timing.beat = measure_beat_range(1, 1, 2, Some(1))[2]
    /\ Len(Out) = 2
    /\ Len(extract_measures(call.self, heap, 1, 1, 2, Some(1)).result.notes) = 1
    /\ Len(extract_measures(call.self, heap, 2, 3, 2, Some(1)).result.notes) = 1

====
